---- MODULE Spec2Model ----
(***************************************************************************)
(* Model of azul's DOM diffing (azul/src/diff.rs) and of image id          *)
(* allocation and alpha premultiplication (azul/src/images.rs).            *)
(*                                                                         *)
(* NodeIds are zero-based; a Rust Vec indexed by NodeId i is the TLA+      *)
(* sequence position i + 1.  Option<T> is a sequence of length <= 1.       *)
(***************************************************************************)
EXTENDS Integers, Sequences, FiniteSets, TLC

VARIABLES
    old,                 \* diff_dom_tree: the `old` arena
    new,                 \* diff_dom_tree: the `new` arena
    pc,                  \* diff_dom_tree: position ("start", "loop", "done", "panic")
    old_non_leaf_nodes,  \* diff.rs:50
    new_non_leaf_nodes,  \* diff.rs:51
    parent_idx,          \* diff.rs:56, position of the enumerate() iterator
    current_idx,         \* diff.rs:53
    current_depth,       \* diff.rs:54
    branch,              \* which (empty) arm of diff.rs:59-75 the last iteration took
    result,              \* the DomDiff returned by diff_dom_tree
    diff_arg,            \* shift_focus: the `diff` argument
    old_focus,           \* shift_focus: Some(old_focus) once called, None before
    focus_ret,           \* shift_focus: the value returned (None before any call)
    ranges,              \* DomRange methods: the ranges at hand
    range_call,          \* DomRange methods: the last call and what it returned
    IMAGE_ID_COUNTER,    \* images.rs:16
    RAW_IMAGE_ID_COUNTER, \* images.rs:17
    tpc,                 \* per thread: where it is in ImageId::new / RawImageId::new
    fetched,             \* per thread: the value its fetch_add returned
    image_ids,           \* the ids ImageId::new has returned, in order of return
    raw_image_ids,       \* the ids RawImageId::new has returned, in order of return
    image_adds,          \* number of fetch_adds on IMAGE_ID_COUNTER so far
    raw_image_adds,      \* number of fetch_adds on RAW_IMAGE_ID_COUNTER so far
    pm_input,            \* premultiply: the buffer as it was passed
    pm_data,             \* premultiply: `data`, changed in place
    pm_chunk,            \* premultiply: number of chunks of chunks_mut(4) consumed
    pm_pc                \* premultiply: position ("start", "loop", "done", "panic")

vars == <<old, new, pc, old_non_leaf_nodes, new_non_leaf_nodes, parent_idx,
          current_idx, current_depth, branch, result, diff_arg, old_focus,
          focus_ret, ranges, range_call, IMAGE_ID_COUNTER, RAW_IMAGE_ID_COUNTER,
          tpc, fetched, image_ids, raw_image_ids, image_adds, raw_image_adds,
          pm_input, pm_data, pm_chunk, pm_pc>>

diffVars == <<old, new, pc, old_non_leaf_nodes, new_non_leaf_nodes, parent_idx,
              current_idx, current_depth, branch, result>>

focusVars == <<diff_arg, old_focus, focus_ret>>

rangeVars == <<ranges, range_call>>

imageVars == <<IMAGE_ID_COUNTER, RAW_IMAGE_ID_COUNTER, tpc, fetched, image_ids,
               raw_image_ids, image_adds, raw_image_adds>>

pmVars == <<pm_input, pm_data, pm_chunk, pm_pc>>

(***************************************************************************)
(* Bounds of the model.                                                    *)
(***************************************************************************)
MaxNodes == 2
MaxHash == 1
MaxShapeNodes == 5
NumThreads == 2
MaxCalls == 5
\* width of usize, scaled down so that the counters can wrap
UsizeBits == 2
MaxRangeId == 2
MaxBufLen == 8

(***************************************************************************)
(* Option<T>                                                               *)
(***************************************************************************)
None == <<>>
Some(x) == <<x>>
IsSome(o) == Len(o) = 1

(***************************************************************************)
(* Range model, diff.rs:8-44                                               *)
(***************************************************************************)
DomNodeInfo(h, i) == [hash |-> h, id |-> i]

DomRange(s, e) == [start |-> s, end |-> e]

\* contains with an exclusive upper bound
contains_exclusive(self, other) ==
    /\ other.start.id >= self.start.id
    /\ other.end.id < self.end.id

\* DomRange::contains, diff.rs:24-27
contains(self, other) ==
    /\ other.start.id >= self.start.id
    /\ other.end.id <= self.end.id

\* derived PartialEq of DomNodeInfo (diff.rs:14): every field is compared
DomNodeInfo_eq(a, b) == a.hash = b.hash /\ a.id = b.id

\* DomRange::equals_range, diff.rs:30-33
equals_range(self, other) ==
    /\ DomNodeInfo_eq(other.start, self.start)
    /\ DomNodeInfo_eq(other.end, self.end)

DomDiff(a, r, s) == [added_nodes |-> a, removed_nodes |-> r, shifted_nodes |-> s]

\* #[derive(Default)]: three empty Vecs
DomDiff_default == DomDiff(<<>>, <<>>, <<>>)

(***************************************************************************)
(* Tree snapshots: Arena { node_layout, node_data }.  A hierarchy is built *)
(* from a parent vector in the linear parent-before-children order the     *)
(* Dom is constructed in, so that a subtree is a contiguous id interval.   *)
(***************************************************************************)
RECURSIVE IsAncestorOrSelf(_, _, _)
\* a is x or an ancestor of x in the parent vector p (ids zero-based)
IsAncestorOrSelf(p, a, x) ==
    IF a = x THEN TRUE
    ELSE IF p[x + 1] = None THEN FALSE
    ELSE IsAncestorOrSelf(p, a, p[x + 1][1])

ParentVectors(n) ==
    { p \in [1..n -> {None} \cup {Some(q) : q \in 0..(n - 2)}] :
        /\ p[1] = None
        /\ \A k \in 2..n :
            /\ IsSome(p[k])
            /\ p[k][1] < k - 1
            /\ IsAncestorOrSelf(p, p[k][1], k - 2) }

ChildrenOf(p, i) == { j \in 0..(Len(p) - 1) : p[j + 1] = Some(i) }

SetMin(S) == CHOOSE x \in S : \A y \in S : x <= y
SetMax(S) == CHOOSE x \in S : \A y \in S : x >= y

OptMin(S) == IF S = {} THEN None ELSE Some(SetMin(S))
OptMax(S) == IF S = {} THEN None ELSE Some(SetMax(S))

\* id_tree::Node { parent, first_child, last_child, next_sibling, previous_sibling }
Node(p, i) ==
    LET sib == IF p[i + 1] = None THEN {} ELSE ChildrenOf(p, p[i + 1][1])
    IN  [ parent           |-> p[i + 1],
          first_child      |-> OptMin(ChildrenOf(p, i)),
          last_child       |-> OptMax(ChildrenOf(p, i)),
          next_sibling     |-> OptMin({ j \in sib : j > i }),
          previous_sibling |-> OptMax({ j \in sib : j < i }) ]

NodeHierarchy(p) == [k \in 1..Len(p) |-> Node(p, k - 1)]

Arena(p, d) == [node_layout |-> NodeHierarchy(p), node_data |-> d]

Snapshots ==
    UNION { { Arena(p, d) : p \in ParentVectors(n), d \in [1..n -> 0..MaxHash] } :
            n \in 1..MaxNodes }

\* Larger trees: every shape, with the contents c, c + 1, ... (cyclically)
\* along the node ids
ShapeSnapshots(c) ==
    UNION { { Arena(p, [k \in 1..n |-> (k - 1 + c) % (MaxHash + 1)]) :
                p \in ParentVectors(n) } :
            n \in 1..MaxShapeNodes }

\* The two arenas of test_ui_hierarchy_diff
TestOldArena ==
    Arena(<<None, Some(0), Some(0), Some(2), Some(2)>>, <<0, 1, 2, 3, 4>>)

TestNewArena ==
    Arena(<<None, Some(0), Some(1), Some(1), Some(0)>>, <<0, 2, 3, 4, 1>>)

(***************************************************************************)
(* Depth-ordered traversal: ui_solver::get_non_leaf_nodes_sorted_by_depth  *)
(* (called at diff.rs:50-51; its body is outside the sources at hand).     *)
(* Every node with at least one child as (depth, NodeId), by ascending     *)
(* depth and by traversal order within a depth level.                      *)
(***************************************************************************)
RECURSIVE Depth(_, _)
Depth(layout, i) ==
    IF layout[i + 1].parent = None THEN 0
    ELSE 1 + Depth(layout, layout[i + 1].parent[1])

NonLeafIds(layout) ==
    { i \in 0..(Len(layout) - 1) : IsSome(layout[i + 1].first_child) }

RECURSIVE SortedByDepth(_, _)
SortedByDepth(layout, S) ==
    IF S = {} THEN <<>>
    ELSE LET m == CHOOSE x \in S : \A y \in S :
                     \/ Depth(layout, x) < Depth(layout, y)
                     \/ Depth(layout, x) = Depth(layout, y) /\ x <= y
         IN  <<[depth |-> Depth(layout, m), id |-> m]>>
                 \o SortedByDepth(layout, S \ {m})

get_non_leaf_nodes_sorted_by_depth(layout) ==
    SortedByDepth(layout, NonLeafIds(layout))

(***************************************************************************)
(* Indexing.  slice::get returns an Option; Index on NodeDataContainer     *)
(* (a Vec) panics when the index is out of bounds.                         *)
(***************************************************************************)
\* new_non_leaf_nodes[current_idx] in place of .get(current_idx)
SliceGet_indexed(s, i) ==
    IF i < Len(s) THEN [tag |-> "some", val |-> s[i + 1]] ELSE [tag |-> "panic"]

\* new_non_leaf_nodes.get(current_idx), diff.rs:59
SliceGet(s, i) ==
    IF i < Len(s) THEN [tag |-> "some", val |-> s[i + 1]] ELSE [tag |-> "none"]

\* container[id], diff.rs:62
DataIndex(data, i) ==
    IF i < Len(data) THEN [tag |-> "ok", val |-> data[i + 1]] ELSE [tag |-> "panic"]

(***************************************************************************)
(* One iteration of the loop of diff_dom_tree, diff.rs:56-76: the arm the  *)
(* iteration ends in, or "panic" when an index is out of bounds.  The arms *)
(* are empty in the source: they hold comments only.                       *)
(***************************************************************************)
LoopBody(o, n, oldNL, newNL, idx) ==
    LET old_depth     == oldNL[idx + 1].depth
        old_parent_id == oldNL[idx + 1].id
        slot          == SliceGet(newNL, idx)
    IN  IF slot.tag = "panic" THEN "panic"
        ELSE IF slot.tag = "none" THEN "new_exhausted"                 \* :74
        ELSE IF slot.val.depth # old_depth THEN "depth_differs"        \* :71
        ELSE IF slot.val.id # old_parent_id THEN "id_differs"          \* :68
        ELSE LET a == DataIndex(o.node_data, old_parent_id)
                 b == DataIndex(n.node_data, slot.val.id)
             IN  IF a.tag = "panic" \/ b.tag = "panic" THEN "panic"
                 ELSE IF a.val = b.val THEN "same_content"             \* :63
                 ELSE "different_content"                              \* :65

\* the conservative classification: all of old removed, all of new added
ReturnedDiff_removeAdd(o, n) ==
    DomDiff(<<DomRange(DomNodeInfo(n.node_data[1], 0),
                       DomNodeInfo(n.node_data[Len(n.node_data)], Len(n.node_data) - 1))>>,
            <<DomRange(DomNodeInfo(o.node_data[1], 0),
                       DomNodeInfo(o.node_data[Len(o.node_data)], Len(o.node_data) - 1))>>,
            <<>>)

\* diff.rs:78: the value returned, whatever the loop visited
ReturnedDiff(o, n) == DomDiff_default

(***************************************************************************)
(* shift_focus, diff.rs:81-85                                              *)
(***************************************************************************)
\* focus kept on the same NodeId
shift_focus_keep(diff, focus) == Some(focus)

shift_focus(diff, focus) == None

(***************************************************************************)
(* diff_dom_tree as a state machine                                        *)
(***************************************************************************)
FocusIdle ==
    /\ diff_arg = DomDiff_default
    /\ old_focus = None
    /\ focus_ret = None

RangeIdle ==
    /\ ranges = <<>>
    /\ range_call = [op |-> "none"]

Threads == 1..NumThreads

ImagesIdle ==
    /\ IMAGE_ID_COUNTER = 0
    /\ RAW_IMAGE_ID_COUNTER = 0
    /\ tpc = [t \in Threads |-> "idle"]
    /\ fetched = [t \in Threads |-> 0]
    /\ image_ids = <<>>
    /\ raw_image_ids = <<>>
    /\ image_adds = 0
    /\ raw_image_adds = 0

PremultiplyIdle ==
    /\ pm_input = <<>>
    /\ pm_data = <<>>
    /\ pm_chunk = 0
    /\ pm_pc = "start"

\* The pairs of arenas diff_dom_tree is called with
DiffInputs ==
    (Snapshots \X Snapshots)
        \cup (ShapeSnapshots(0) \X UNION { ShapeSnapshots(c) : c \in 0..MaxHash })
        \cup {<<TestOldArena, TestNewArena>>}

DiffIdle ==
    /\ old = TestOldArena
    /\ new = TestNewArena
    /\ pc = "start"
    /\ old_non_leaf_nodes = <<>>
    /\ new_non_leaf_nodes = <<>>
    /\ parent_idx = 0
    /\ current_idx = 0
    /\ current_depth = 0
    /\ branch = "none"
    /\ result = DomDiff_default

InitDiff ==
    /\ DiffIdle
    /\ FocusIdle
    /\ RangeIdle
    /\ ImagesIdle
    /\ PremultiplyIdle

\* diff_dom_tree(old, new) is called: diff.rs:46-51
DiffEnter ==
    /\ pc = "start"
    /\ \E args \in DiffInputs :
        /\ old' = args[1]
        /\ new' = args[2]
        /\ old_non_leaf_nodes' = get_non_leaf_nodes_sorted_by_depth(args[1].node_layout)
        /\ new_non_leaf_nodes' = get_non_leaf_nodes_sorted_by_depth(args[2].node_layout)
    /\ pc' = "loop"
    /\ UNCHANGED <<parent_idx, current_idx, current_depth, branch, result>>
    /\ UNCHANGED <<focusVars, rangeVars, imageVars, pmVars>>

\* diff.rs:56-76, one iteration
DiffLoop ==
    /\ pc = "loop"
    /\ parent_idx < Len(old_non_leaf_nodes)
    /\ current_idx' = parent_idx
    /\ current_depth' = old_non_leaf_nodes[parent_idx + 1].depth
    /\ branch' = LoopBody(old, new, old_non_leaf_nodes, new_non_leaf_nodes, parent_idx)
    /\ pc' = IF branch' = "panic" THEN "panic" ELSE "loop"
    /\ parent_idx' = parent_idx + 1
    /\ UNCHANGED <<old, new, old_non_leaf_nodes, new_non_leaf_nodes, result>>
    /\ UNCHANGED <<focusVars, rangeVars, imageVars, pmVars>>

\* diff.rs:78
DiffReturn ==
    /\ pc = "loop"
    /\ parent_idx = Len(old_non_leaf_nodes)
    /\ result' = ReturnedDiff(old, new)
    /\ pc' = "done"
    /\ UNCHANGED <<old, new, old_non_leaf_nodes, new_non_leaf_nodes, parent_idx,
                   current_idx, current_depth, branch>>
    /\ UNCHANGED <<focusVars, rangeVars, imageVars, pmVars>>

NextDiff == DiffEnter \/ DiffLoop \/ DiffReturn

\* diff_dom_tree is a sequential function: a call that has started runs on
SpecDiff == InitDiff /\ [][NextDiff]_vars /\ WF_vars(NextDiff)

(***************************************************************************)
(* shift_focus on its own, for diffs that hold added, removed and shifted  *)
(* ranges (test_ui_hierarchy_diff calls it on a hand-built DomDiff).       *)
(***************************************************************************)
\* Ranges of nodes a..b whose boundary nodes carry the hash h
FocusRanges ==
    { r \in { DomRange(DomNodeInfo(h, a), DomNodeInfo(h, b)) :
                a \in 0..MaxRangeId, b \in 0..MaxRangeId, h \in 0..MaxHash } :
        r.start.id <= r.end.id }

RangeSize(r) == r.end.id - r.start.id + 1

\* A shifted pair: the same content (hashes, size) at another place
ShiftedPairs ==
    { <<a, b>> \in FocusRanges \X FocusRanges :
        /\ a.start.hash = b.start.hash
        /\ RangeSize(a) = RangeSize(b)
        /\ a.start.id # b.start.id }

AtMostOne(S) == {<<>>} \cup { <<x>> : x \in S }

\* expected_diff of test_ui_hierarchy_diff, diff.rs:211-225
expected_diff ==
    DomDiff(<<>>, <<>>,
            << <<DomRange(DomNodeInfo(1, 1), DomNodeInfo(1, 1)),
                 DomRange(DomNodeInfo(1, 4), DomNodeInfo(1, 4))>> >>)

FocusDiffs ==
    { DomDiff(a, r, s) :
        a \in AtMostOne(FocusRanges), r \in AtMostOne(FocusRanges),
        s \in AtMostOne(ShiftedPairs) }
    \cup {expected_diff}

InitFocus ==
    /\ DiffIdle
    /\ RangeIdle
    /\ ImagesIdle
    /\ PremultiplyIdle
    /\ diff_arg \in FocusDiffs
    /\ old_focus = None
    /\ focus_ret = None

ShiftFocusCall ==
    /\ \E x \in 0..(MaxRangeId + 2) :
        /\ old_focus' = Some(x)
        /\ focus_ret' = shift_focus(diff_arg, x)
    /\ UNCHANGED <<diffVars, rangeVars, imageVars, diff_arg, pmVars>>

NextFocus == ShiftFocusCall

SpecFocus == InitFocus /\ [][NextFocus]_vars

(***************************************************************************)
(* The DomRange methods on their own                                       *)
(***************************************************************************)
NodeInfos == [hash : 0..MaxHash, id : 0..MaxRangeId]

PlainInfos == [hash : {0}, id : 0..MaxRangeId]

InitRange ==
    /\ DiffIdle
    /\ FocusIdle
    /\ ImagesIdle
    /\ PremultiplyIdle
    /\ ranges \in [start : PlainInfos, end : PlainInfos]
                  \X [start : NodeInfos, end : NodeInfos]
                  \X [start : PlainInfos, end : PlainInfos]
    /\ range_call = [op |-> "none"]

ContainsCall ==
    /\ \E i \in 1..3, j \in 1..3 :
        range_call' = [op |-> "contains", self |-> ranges[i], other |-> ranges[j],
                       ret |-> contains(ranges[i], ranges[j])]
    /\ UNCHANGED <<diffVars, focusVars, imageVars, ranges, pmVars>>

EqualsRangeCall ==
    /\ \E i \in 1..2, j \in 1..2 :
        range_call' = [op |-> "equals_range", self |-> ranges[i], other |-> ranges[j],
                       ret |-> equals_range(ranges[i], ranges[j])]
    /\ UNCHANGED <<diffVars, focusVars, imageVars, ranges, pmVars>>

NextRange == ContainsCall \/ EqualsRangeCall

SpecRange == InitRange /\ [][NextRange]_vars

(***************************************************************************)
(* Image ids, images.rs:16-38.  Threads call ImageId::new and              *)
(* RawImageId::new (the latter also through ImageSource::new_raw,          *)
(* images.rs:129-131) concurrently.  AtomicUsize::fetch_add is one atomic  *)
(* step: it returns the previous value and stores the sum, wrapping.       *)
(***************************************************************************)
UsizeModulus == 2 ^ UsizeBits

\* a plain load in place of the fetch_add: nothing is added
FetchAddStored_load(c) == c

\* the value fetch_add(1, SeqCst) stores, images.rs:27 and :36
FetchAddStored(c) == (c + 1) % UsizeModulus

\* the value fetch_add(1, SeqCst) returns: the previous value
FetchAddReturned(c) == c

\* calls of either constructor begun so far (the model stops at MaxCalls)
CallsStarted ==
    image_adds + raw_image_adds
        + Cardinality({ u \in Threads : tpc[u] \in {"image_new", "raw_new"} })

InitImages ==
    /\ DiffIdle
    /\ FocusIdle
    /\ RangeIdle
    /\ ImagesIdle
    /\ PremultiplyIdle

\* a thread enters ImageId::new()
ImageIdNewEnter(t) ==
    /\ tpc[t] = "idle"
    /\ CallsStarted < MaxCalls
    /\ tpc' = [tpc EXCEPT ![t] = "image_new"]
    /\ UNCHANGED <<IMAGE_ID_COUNTER, RAW_IMAGE_ID_COUNTER, fetched, image_ids,
                   raw_image_ids, image_adds, raw_image_adds>>
    /\ UNCHANGED <<diffVars, focusVars, rangeVars, pmVars>>

\* IMAGE_ID_COUNTER.fetch_add(1, Ordering::SeqCst), images.rs:27
ImageIdFetchAdd(t) ==
    /\ tpc[t] = "image_new"
    /\ fetched' = [fetched EXCEPT ![t] = FetchAddReturned(IMAGE_ID_COUNTER)]
    /\ IMAGE_ID_COUNTER' = FetchAddStored(IMAGE_ID_COUNTER)
    /\ image_adds' = image_adds + 1
    /\ tpc' = [tpc EXCEPT ![t] = "image_ret"]
    /\ UNCHANGED <<RAW_IMAGE_ID_COUNTER, image_ids, raw_image_ids, raw_image_adds>>
    /\ UNCHANGED <<diffVars, focusVars, rangeVars, pmVars>>

\* ImageId { id } is returned to the caller
ImageIdNewReturn(t) ==
    /\ tpc[t] = "image_ret"
    /\ image_ids' = Append(image_ids, [id |-> fetched[t]])
    /\ tpc' = [tpc EXCEPT ![t] = "idle"]
    /\ UNCHANGED <<IMAGE_ID_COUNTER, RAW_IMAGE_ID_COUNTER, fetched, raw_image_ids,
                   image_adds, raw_image_adds>>
    /\ UNCHANGED <<diffVars, focusVars, rangeVars, pmVars>>

\* a thread enters RawImageId::new(), directly or from ImageSource::new_raw()
RawImageIdNewEnter(t) ==
    /\ tpc[t] = "idle"
    /\ CallsStarted < MaxCalls
    /\ tpc' = [tpc EXCEPT ![t] = "raw_new"]
    /\ UNCHANGED <<IMAGE_ID_COUNTER, RAW_IMAGE_ID_COUNTER, fetched, image_ids,
                   raw_image_ids, image_adds, raw_image_adds>>
    /\ UNCHANGED <<diffVars, focusVars, rangeVars, pmVars>>

\* RAW_IMAGE_ID_COUNTER.fetch_add(1, Ordering::SeqCst), images.rs:36
RawImageIdFetchAdd(t) ==
    /\ tpc[t] = "raw_new"
    /\ fetched' = [fetched EXCEPT ![t] = FetchAddReturned(RAW_IMAGE_ID_COUNTER)]
    /\ RAW_IMAGE_ID_COUNTER' = FetchAddStored(RAW_IMAGE_ID_COUNTER)
    /\ raw_image_adds' = raw_image_adds + 1
    /\ tpc' = [tpc EXCEPT ![t] = "raw_ret"]
    /\ UNCHANGED <<IMAGE_ID_COUNTER, image_ids, raw_image_ids, image_adds>>
    /\ UNCHANGED <<diffVars, focusVars, rangeVars, pmVars>>

\* the id is returned to the caller
RawImageIdNewReturn(t) ==
    /\ tpc[t] = "raw_ret"
    /\ raw_image_ids' = Append(raw_image_ids, [id |-> fetched[t]])
    /\ tpc' = [tpc EXCEPT ![t] = "idle"]
    /\ UNCHANGED <<IMAGE_ID_COUNTER, RAW_IMAGE_ID_COUNTER, fetched, image_ids,
                   image_adds, raw_image_adds>>
    /\ UNCHANGED <<diffVars, focusVars, rangeVars, pmVars>>

NextImages ==
    \/ \E t \in Threads : ImageIdNewEnter(t)
    \/ \E t \in Threads : ImageIdFetchAdd(t)
    \/ \E t \in Threads : ImageIdNewReturn(t)
    \/ \E t \in Threads : RawImageIdNewEnter(t)
    \/ \E t \in Threads : RawImageIdFetchAdd(t)
    \/ \E t \in Threads : RawImageIdNewReturn(t)

SpecImages == InitImages /\ [][NextImages]_vars

(***************************************************************************)
(* Subtrees of a snapshot, for stating what a diff should report           *)
(***************************************************************************)
RECURSIVE InSubtree(_, _, _)
\* node x lies in the subtree rooted at node a
InSubtree(layout, a, x) ==
    IF a = x THEN TRUE
    ELSE IF layout[x + 1].parent = None THEN FALSE
    ELSE InSubtree(layout, a, layout[x + 1].parent[1])

NodeIds(arena) == 0..(Len(arena.node_data) - 1)

SubtreeEnd(arena, i) ==
    SetMax({ x \in NodeIds(arena) : InSubtree(arena.node_layout, i, x) })

SubtreeHashes(arena, i) ==
    SubSeq(arena.node_data, i + 1, SubtreeEnd(arena, i) + 1)

SubtreeRange(arena, i) ==
    DomRange(DomNodeInfo(arena.node_data[i + 1], i),
             DomNodeInfo(arena.node_data[SubtreeEnd(arena, i) + 1], SubtreeEnd(arena, i)))

HasCounterpart(arena, i, other) ==
    \E j \in NodeIds(other) : SubtreeHashes(other, j) = SubtreeHashes(arena, i)

SeqRange(s) == { s[k] : k \in 1..Len(s) }

InRange(r, x) == r.start.id <= x /\ x <= r.end.id

(***************************************************************************)
(* Properties                                                              *)
(***************************************************************************)

\* C1: for the two arenas of the worked example (old 0{1,2{3,4}} with hashes
\* [0,1,2,3,4], new 0{1{2,3},4} with hashes [0,2,3,4,1]) diff_dom_tree returns
\* exactly one shifted pair, {id 1, hash 1}..{id 1, hash 1} to
\* {id 4, hash 1}..{id 4, hash 1}, and empty added and removed lists.
C1_TestDiffIsOneShift ==
    (pc = "done" /\ old = TestOldArena /\ new = TestNewArena)
        => result = expected_diff

\* C2: when the diff holds a shifted pair (A, B) and the old focus X lies
\* inside A, shift_focus returns Some(B.start + (X - A.start)).
C2_FocusFollowsShift ==
    IsSome(old_focus) =>
        \A pair \in SeqRange(diff_arg.shifted_nodes) :
            InRange(pair[1], old_focus[1]) =>
                focus_ret = Some(pair[2].start.id + (old_focus[1] - pair[1].start.id))

\* C3: when the diff's only entry is a shifted pair (A, B) that moves A to a
\* later place, and the old focus X lies after A and not after B
\* (A.end < X <= B.end), shift_focus returns Some(X - size of A).
C3_FocusOfDisplacedNode ==
    (/\ IsSome(old_focus)
     /\ diff_arg.added_nodes = <<>>
     /\ diff_arg.removed_nodes = <<>>) =>
        \A pair \in SeqRange(diff_arg.shifted_nodes) :
            (/\ pair[1].start.id < pair[2].start.id
             /\ pair[1].end.id < old_focus[1]
             /\ old_focus[1] <= pair[2].end.id) =>
                focus_ret = Some(old_focus[1] - RangeSize(pair[1]))

OutsideEveryRange(diff, x) ==
    /\ \A r \in SeqRange(diff.added_nodes) : ~InRange(r, x)
    /\ \A r \in SeqRange(diff.removed_nodes) : ~InRange(r, x)
    /\ \A pair \in SeqRange(diff.shifted_nodes) :
        ~InRange(pair[1], x) /\ ~InRange(pair[2], x)

C5_SelfDiffIsEmpty ==
    (pc = "done" /\ old = new /\ old_non_leaf_nodes # <<>>) =>
        /\ result.added_nodes = <<>>
        /\ result.removed_nodes = <<>>
        /\ result.shifted_nodes = <<>>

\* C5 witness: a snapshot with two non-leaf parents was diffed against itself
C5_Witness ==
    /\ pc = "done"
    /\ old = new
    /\ Len(old_non_leaf_nodes) >= 2
    /\ result = DomDiff_default

\* C6: every subtree of new without an equal-content counterpart in old is
\* a range of added, every subtree of old without a counterpart in new is a
\* range of removed, and when new has fewer non-leaf parents than old the
\* removed list is not empty.
C6_OneSidedSubtreesReported ==
    pc = "done" =>
        /\ \A j \in NodeIds(new) :
            ~HasCounterpart(new, j, old) =>
                SubtreeRange(new, j) \in SeqRange(result.added_nodes)
        /\ \A i \in NodeIds(old) :
            ~HasCounterpart(old, i, new) =>
                SubtreeRange(old, i) \in SeqRange(result.removed_nodes)
        /\ Len(new_non_leaf_nodes) < Len(old_non_leaf_nodes) =>
                result.removed_nodes # <<>>

WellFormedRange(r) == r.start.id <= r.end.id

\* C7: contains(self, other) is true exactly when other.start.id >=
\* self.start.id and other.end.id <= self.end.id, whatever the hashes; for
\* ranges with start <= end it implies that every node index of other lies
\* within self's bounds; contains is reflexive and transitive.
C7_ContainsIsIndexNesting ==
    /\ range_call.op = "contains" =>
        /\ range_call.ret =
            (/\ range_call.self.start.id <= range_call.other.start.id
             /\ range_call.other.end.id <= range_call.self.end.id)
        /\ (/\ range_call.ret
            /\ WellFormedRange(range_call.self)
            /\ WellFormedRange(range_call.other)) =>
                \A k \in range_call.other.start.id..range_call.other.end.id :
                    InRange(range_call.self, k)
        /\ range_call.self = range_call.other => range_call.ret
    /\ \A i \in 1..Len(ranges), j \in 1..Len(ranges), k \in 1..Len(ranges) :
        (contains(ranges[i], ranges[j]) /\ contains(ranges[j], ranges[k]))
            => contains(ranges[i], ranges[k])

\* C7 witness: contains returned true for a range strictly inside another
\* whose hashes differ from it
C7_Witness ==
    /\ range_call.op = "contains"
    /\ range_call.ret
    /\ range_call.self.start.id < range_call.other.start.id
    /\ range_call.other.start.id < range_call.other.end.id
    /\ range_call.other.end.id <= range_call.self.end.id
    /\ range_call.other.start.hash # range_call.self.start.hash

\* C8: equals_range does not look at the hashes: two ranges with equal
\* start ids and equal end ids are equals_range.
C8_EqualsRangeIgnoresHashes ==
    (/\ range_call.op = "equals_range"
     /\ range_call.self.start.id = range_call.other.start.id
     /\ range_call.self.end.id = range_call.other.end.id)
        => range_call.ret

\* C9: diff_dom_tree never fails: no index is out of bounds and the call
\* returns, for every pair of snapshots.
C9_NeverFails == [](pc # "panic") /\ <>(pc = "done")

\* C9 witness: the call returned for snapshots of different node counts,
\* with more non-leaf parents in old than in new
C9_Witness ==
    /\ pc = "done"
    /\ Len(old.node_data) # Len(new.node_data)
    /\ Len(old_non_leaf_nodes) > Len(new_non_leaf_nodes)
    /\ new_non_leaf_nodes # <<>>
    /\ branch = "new_exhausted"

Distinct(s) == \A i \in 1..Len(s), j \in 1..Len(s) : i # j => s[i] # s[j]

\* the ids handed out by the calls so far: those returned, then those a
\* thread has fetched and is about to return
IdsOf(returned, state) ==
    LET S == { t \in Threads : tpc[t] = state }
        RECURSIVE Pending(_)
        Pending(T) == IF T = {} THEN <<>>
                      ELSE LET t == SetMin(T)
                           IN  <<[id |-> fetched[t]]>> \o Pending(T \ {t})
    IN  returned \o Pending(S)

\* C10: while a counter has not wrapped around, any two calls of
\* ImageId::new have different ids, and any two calls of RawImageId::new
\* have different ids, whatever the interleaving of the threads.
C10_ImageIdsUnique ==
    /\ image_adds <= UsizeModulus => Distinct(IdsOf(image_ids, "image_ret"))
    /\ raw_image_adds <= UsizeModulus => Distinct(IdsOf(raw_image_ids, "raw_ret"))

\* C10 witness: two ImageId::new calls returned in the opposite order of
\* their fetch_adds, a third is in flight, and RawImageId::new was called
C10_Witness ==
    /\ Len(image_ids) >= 2
    /\ image_ids[1].id > image_ids[2].id
    /\ \E t \in Threads : tpc[t] = "image_ret"
    /\ raw_image_ids # <<>>
    /\ image_adds <= UsizeModulus

(***************************************************************************)
(* premultiply, images.rs:262-269.  data.chunks_mut(4) yields the chunks   *)
(* of four bytes in order, and a shorter last chunk when the length is no  *)
(* multiple of four; pixel[3] on a chunk shorter than four bytes panics.   *)
(***************************************************************************)
Bytes == 0..255

\* the channel without the rounding term
PremultiplyChannel_truncating(c, a) == ((c * a) \div 255) % 256

\* (((pixel[i] as u32 * a) + 128) / 255) as u8, images.rs:265-267; the u32
\* sum is at most 255 * 255 + 128 and cannot wrap, `as u8` keeps the low byte
PremultiplyChannel(c, a) == (((c * a) + 128) \div 255) % 256

\* number of chunks chunks_mut(4) yields for a slice of length n
NumChunks(n) == (n + 3) \div 4

\* length of chunk k (zero-based) of a slice of length n
ChunkLen(n, k) == IF 4 * k + 4 <= n THEN 4 ELSE n - 4 * k

\* the body of the loop on chunk k, images.rs:264-267
PremultiplyPixel(data, k) ==
    LET a == data[4 * k + 4]
    IN  [i \in 1..Len(data) |->
            IF i \in (4 * k + 1)..(4 * k + 3)
            THEN PremultiplyChannel(data[i], a)
            ELSE data[i]]

SampleBytes == {0, 127, 255}

\* The buffers premultiply is called with: one pixel with every colour and
\* alpha value, short buffers of sample bytes (whole pixels or not), and
\* the pixel of test_premultiply
PremultiplyInputs ==
    { <<c, 0, 255, a>> : c \in Bytes, a \in Bytes }
        \cup UNION { [1..n -> SampleBytes] : n \in 0..MaxBufLen }
        \cup { <<255, 0, 0, 127>> }

InitPremultiply ==
    /\ DiffIdle
    /\ FocusIdle
    /\ RangeIdle
    /\ ImagesIdle
    /\ PremultiplyIdle

\* premultiply(data) is called
PremultiplyEnter ==
    /\ pm_pc = "start"
    /\ \E buf \in PremultiplyInputs :
        /\ pm_input' = buf
        /\ pm_data' = buf
    /\ pm_chunk' = 0
    /\ pm_pc' = "loop"
    /\ UNCHANGED <<diffVars, focusVars, rangeVars, imageVars>>

\* one iteration of the loop, images.rs:263-268
PremultiplyChunk ==
    /\ pm_pc = "loop"
    /\ pm_chunk < NumChunks(Len(pm_data))
    /\ IF ChunkLen(Len(pm_data), pm_chunk) < 4
       THEN /\ pm_pc' = "panic"
            /\ UNCHANGED <<pm_data, pm_chunk>>
       ELSE /\ pm_data' = PremultiplyPixel(pm_data, pm_chunk)
            /\ pm_chunk' = pm_chunk + 1
            /\ pm_pc' = "loop"
    /\ UNCHANGED <<diffVars, focusVars, rangeVars, imageVars, pm_input>>

\* the chunks are exhausted: premultiply returns
PremultiplyReturn ==
    /\ pm_pc = "loop"
    /\ pm_chunk = NumChunks(Len(pm_data))
    /\ pm_pc' = "done"
    /\ UNCHANGED <<diffVars, focusVars, rangeVars, imageVars, pm_input, pm_data,
                   pm_chunk>>

NextPremultiply == PremultiplyEnter \/ PremultiplyChunk \/ PremultiplyReturn

SpecPremultiply == InitPremultiply /\ [][NextPremultiply]_vars

\* C11: once premultiply has gone through the buffer, every 4-byte pixel
\* (c0, c1, c2, a) of it holds (c * a + 128) / 255 in each colour channel
\* and its alpha byte unchanged; each channel fits in a byte and is at most
\* a; [255, 0, 0, 127] has become [127, 0, 0, 127].
C11_PremultiplyPixels ==
    pm_pc \in {"done", "panic"} =>
        /\ Len(pm_data) = Len(pm_input)
        /\ \A k \in 0..((Len(pm_input) \div 4) - 1) :
            LET a == pm_input[4 * k + 4]
            IN  /\ pm_data[4 * k + 4] = a
                /\ \A i \in (4 * k + 1)..(4 * k + 3) :
                    /\ pm_data[i] = (pm_input[i] * a + 128) \div 255
                    /\ pm_data[i] \in Bytes
                    /\ pm_data[i] <= a
        /\ (pm_pc = "done" /\ pm_input = <<255, 0, 0, 127>>)
                => pm_data = <<127, 0, 0, 127>>

\* C11 witness: premultiply returned for a buffer of two pixels, the first
\* with a colour 255 under alpha 127, which has become 127
C11_Witness ==
    /\ pm_pc = "done"
    /\ Len(pm_input) = 8
    /\ pm_input[1] = 255
    /\ pm_input[4] = 127
    /\ pm_input[8] = 255
    /\ pm_data[1] = 127
    /\ pm_data[4] = 127
    /\ pm_data # pm_input

====
